---- MODULE Spec2Model ----
(***************************************************************************)
(* Model of stbt-batch.d/run.py: the batch loop of main, the signal        *)
(* handler on_term, the scoped run directory of setup_dirs (make_rundir,   *)
(* symlink_f, the state sender) and the child supervision of run_one.      *)
(*                                                                         *)
(* The supervising process is one sequential program; pc is its position.  *)
(* The child test process and the delivery of SIGINT/SIGTERM are the only  *)
(* concurrent activities.  A Python signal handler runs between two        *)
(* bytecodes of the main thread, so Signal may fire at every position.     *)
(***************************************************************************)
EXTENDS Integers, Sequences, FiniteSets, TLC

\* ---- bounds -------------------------------------------------------------
MaxRuns == 2          \* runs started by one batch
MaxTime == 2          \* seconds of the wall clock that make_rundir can read
MaxSignals == 3       \* SIGINT/SIGTERM deliveries
NumTests == 2         \* test cases on the command line
MaxKeepGoing == 2     \* number of -k flags
MaxStatus == 3        \* largest exit status of the child
MaxYields == 5        \* elements pulled from a scheduler driven on its own
MaxDur == 2           \* longest time a consumer spends on one yielded test
MaxChoices == 3       \* length of the list handed to weighted_choice
MaxWeight == 2        \* largest weight handed to weighted_choice

\* ---- values -------------------------------------------------------------
Null == 0                               \* None / a missing link
ExitStatuses == {-1} \cup (0..MaxStatus) \* -N: child killed by signal N
KeepGoingLevels == 0..MaxKeepGoing      \* 0: no -k given (args.keep_going is None)
test_cases == [i \in 1..NumTests |-> i]
Durations == 0..MaxDur                  \* time between a yield and the next()
Pending == -1                           \* weighted_choice not called yet
AssertFail == 0                         \* assert False, "Shouldn't get here"

VARIABLES
    pc,               \* position of the supervising process
    exc,              \* exception being propagated: "none", "SystemExit", "Error"
    exit_code,        \* value main returned / status the process ended with
    term_count,       \* term_count[0]
    run_count, failure_count, last_exit_status,
    keep_going,       \* args.keep_going
    repeat,           \* not args.run_once
    gen_pos,          \* loop_tests: index of the last element yielded
    test_name,        \* loop variable of main
    now,              \* last wall-clock second read by make_rundir
    rundir,           \* local of setup_dirs
    dirs,             \* run directories that exist under outputdir
    links,            \* current<tag>, latest<tag> and the temporary link
    markers,          \* directories holding an unrecoverable-error file
    active,           \* state_sender's active_results_directory
    child,            \* local of run_one: Null or the pid bound by Popen
    child_state,      \* "none", "running", "exited" (zombie), "reaped"
    child_status,     \* exit status of the child once it has exited
    child_signalled,  \* SIGTERM was sent to the child's process group
    child_cwd,        \* working directory of the child
    ret,              \* value returned by child.wait() in run_one
    executed,         \* history: exit statuses of the runs run_one returned from
    shuffle_on,       \* args.shuffle
    gen_at,           \* shuffle: "new", "340", "350" (suspended yield), "returned"
    order,            \* shuffle: test_cases after random.shuffle
    timings,          \* shuffle: test -> [total, count]
    start_time,       \* shuffle: time.time() read before the yield
    elapsed,          \* shuffle: last value of time.time() - start_time
    yields,           \* history: elements yielded by the test generator
    wc_choices,       \* weighted_choice: argument, a list of <<item, weight>>
    wc_r,             \* weighted_choice: value of random.uniform(0, total)
    wc_result         \* weighted_choice: returned item, AssertFail or Pending

vars == <<pc, exc, exit_code, term_count, run_count, failure_count,
          last_exit_status, keep_going, repeat, gen_pos, test_name, now,
          rundir, dirs, links, markers, active, child, child_state,
          child_status, child_signalled, child_cwd, ret, executed,
          shuffle_on, gen_at, order, timings, start_time, elapsed,
          yields,
          wc_choices, wc_r, wc_result>>

mainVars == <<run_count, failure_count, last_exit_status, keep_going, repeat>>
wcVars == <<wc_choices, wc_r, wc_result>>
shuffleVars == <<shuffle_on, gen_at, order, timings, start_time, elapsed>>
genVars == <<gen_pos, test_name, yields, shuffleVars, wcVars>>
fsVars == <<now, rundir, dirs, links, markers>>
childVars == <<child, child_state, child_status, child_signalled, child_cwd, ret>>

\* ---- positions ----------------------------------------------------------
\* run_one, inside try (lines 252-256)
TryPcs == {"popen", "store_child", "wait", "ret"}
\* body of the with statement of main (lines 124-125), except handler included
BodyPcs == {"fill", "child_none", "except", "wait2"}
\* finally block of setup_dirs (lines 217-220)
FinallyPcs == {"fin_symlink", "fin_rename", "fin_clear"}
\* setup_dirs before its try (lines 206-214)
SetupPcs == {"mkdir0", "sleep", "mkdir1", "cur_symlink", "cur_rename",
             "set_pointer", "enter_try"}
\* main outside the with statement
LoopPcs == {"start", "next", "check_term", "incr", "account", "check_marker",
            "decide", "compute_exit"}
Terminal == {"no_ts", "returned", "terminated"}

\* ---- pure decisions of the code ----------------------------------------
\* variant: the handler exits only from the third signal on
OnTermExitsLate(tc) == tc > 2

\* on_term, lines 85-90: after the increment, only the first signal returns
OnTermExits(tc) == tc # 1

\* variant: the loop top ignores the first interrupt
TermRequestedLate(tc) == tc > 1

\* main, line 119
TermRequested(tc) == tc > 0

\* variant: the marker is looked up in the output directory itself
MarkerExistsInOutputDir(l, m) == Null \in m

\* main, lines 129-130: os.path.exists("<output>/latest<tag>/unrecoverable-error")
MarkerExists(l, m) == l.latest # Null /\ l.latest \in m

\* variant: the infrastructure threshold is off by one
DecideAboveTwo(status, kg) ==
    IF status = 0 THEN "CONTINUE"
    ELSE IF status > 2 /\ kg > 0 THEN "CONTINUE"
    ELSE IF kg >= 2 THEN "CONTINUE"
    ELSE "STOP"

\* main, lines 133-141.  keep_going 0 stands for None, which Python 2 orders
\* below every integer, so both comparisons are false for it.
Decide(status, kg) ==
    IF status = 0 THEN "CONTINUE"
    ELSE IF status >= 2 /\ kg > 0 THEN "CONTINUE"
    ELSE IF kg >= 2 THEN "CONTINUE"
    ELSE "STOP"

\* variant: the single-run passthrough is missing
ExitCodeNoPassthrough(rc, les, fc) ==
    IF fc = 0 THEN 0
    ELSE 1

\* main, lines 143-150
ExitCode(rc, les, fc) ==
    IF rc = 1 THEN les
    ELSE IF fc = 0 THEN 0
    ELSE 1

\* variant: a child killed by a signal (negative status) is not counted
CountFailurePositive(fc, status) == IF status > 0 THEN fc + 1 ELSE fc

\* main, lines 127-128
CountFailure(fc, status) == IF status # 0 THEN fc + 1 ELSE fc

\* variant: the old link is removed before the new one is created
OsSymlinkUnlinkFirst(l, source, link_name) ==
    [l EXCEPT ![link_name] = Null, !.tmp = source]

\* symlink_f, lines 224-225: os.symlink(source, "<link_name>-<random>~")
OsSymlink(l, source, link_name) == [l EXCEPT !.tmp = source]

\* symlink_f, line 226: os.rename(name, link_name)
OsRename(l, link_name) == [l EXCEPT ![link_name] = l.tmp, !.tmp = Null]

\* ---- exception propagation ---------------------------------------------
\* An exception raised at position pc: SystemExit inside the try of run_one
\* reaches its except clause; anything leaving the with body reaches the
\* finally of setup_dirs; everything else ends the process with status 1.
Raise(e) ==
    IF e = "SystemExit" /\ pc \in TryPcs
    THEN pc' = "except" /\ exc' = e /\ UNCHANGED exit_code
    ELSE IF pc \in BodyPcs \cup TryPcs
    THEN pc' = "fin_symlink" /\ exc' = e /\ UNCHANGED exit_code
    ELSE pc' = "terminated" /\ exc' = e /\ exit_code' = 1

\* the generator object exists, its body has not run (lines 107-110)
SchedulerInit ==
    /\ gen_pos = 0
    /\ test_name = Null
    /\ gen_at = "new"
    /\ order = <<>>
    /\ timings = <<>>
    /\ start_time = 0
    /\ elapsed = 0
    /\ yields = <<>>

\* no call of weighted_choice under observation
WcIdle ==
    /\ wc_choices = <<>>
    /\ wc_r = 0
    /\ wc_result = Pending

\* the supervising process after line 105, nothing run yet
ProcessInit ==
    /\ exc = "none"
    /\ exit_code = Null
    /\ term_count = 0
    /\ run_count = 0
    /\ failure_count = 0
    /\ last_exit_status = 0
    /\ now = 1
    /\ rundir = Null
    /\ dirs = {}
    /\ links = [current |-> Null, latest |-> Null, tmp |-> Null]
    /\ markers = {}
    /\ active = Null
    /\ child = Null
    /\ child_state = "none"
    /\ child_status = 0
    /\ child_signalled = FALSE
    /\ child_cwd = Null
    /\ ret = 0
    /\ executed = <<>>

Init ==
    /\ pc = "start"
    /\ keep_going \in KeepGoingLevels
    /\ repeat \in BOOLEAN
    /\ shuffle_on = FALSE
    /\ ProcessInit
    /\ SchedulerInit
    /\ WcIdle

\* ---- signals ------------------------------------------------------------
\* on_term, lines 83-90.  The first signal only counts; it also cuts a
\* time.sleep short.  Every later one raises SystemExit where the main
\* thread stands.
on_term ==
    /\ pc \notin Terminal
    /\ term_count < MaxSignals
    /\ term_count' = term_count + 1
    /\ IF OnTermExits(term_count + 1)
       THEN Raise("SystemExit")
       ELSE /\ pc' = IF pc = "sleep" THEN "mkdir1" ELSE pc
            /\ UNCHANGED <<exc, exit_code>>
    /\ UNCHANGED <<mainVars, genVars, fsVars, active, childVars, executed>>

\* ---- main, before the loop ---------------------------------------------
\* lines 98-101
TsMissing ==
    /\ pc = "start"
    /\ pc' = "no_ts"
    /\ exit_code' = 1
    /\ UNCHANGED <<exc, term_count, mainVars, genVars, fsVars, active,
                   childVars, executed>>

TsFound ==
    /\ pc = "start"
    /\ pc' = "next"
    /\ UNCHANGED <<exc, exit_code, term_count, mainVars, genVars, fsVars,
                   active, childVars, executed>>

\* ---- loop_tests, lines 310-315 -----------------------------------------
\* variant: the generators go on after the pass whatever repeat is
PassEndsNever(rep) == FALSE

\* lines 314-315 and 344-345: if not repeat: return
PassEnds(rep) == ~rep

\* variant: the wrap-around skips the first test case
LoopTestsNextSkipFirst(pos, n) == IF pos < n THEN pos + 1 ELSE 2

\* lines 311-313: the for loop advances, the while loop restarts it
LoopTestsNext(pos, n) == IF pos < n THEN pos + 1 ELSE 1

LoopTestsYield ==
    /\ pc = "next"
    /\ ~shuffle_on
    /\ gen_pos < NumTests \/ ~PassEnds(repeat)
    /\ gen_pos' = LoopTestsNext(gen_pos, NumTests)
    /\ test_name' = test_cases[gen_pos']
    /\ yields' = Append(yields, test_name')
    /\ pc' = "check_term"
    /\ UNCHANGED <<exc, exit_code, term_count, mainVars, fsVars, active,
                   childVars, executed, shuffleVars, wcVars>>

LoopTestsReturn ==
    /\ pc = "next"
    /\ ~shuffle_on
    /\ gen_pos = NumTests /\ PassEnds(repeat)
    /\ pc' = "compute_exit"
    /\ UNCHANGED <<exc, exit_code, term_count, mainVars, genVars, fsVars,
                   active, childVars, executed>>

\* ---- weighted_choice, lines 318-329 ------------------------------------
\* line 322: total = sum(w for c, w in choices)
RECURSIVE SumWeights(_)
SumWeights(choices) ==
    IF choices = <<>> THEN 0
    ELSE choices[1][2] + SumWeights(Tail(choices))

\* line 323: random.uniform(0, total) = 0 + total * random(), random() < 1
UniformDraws(total) == IF total > 0 THEN 0..(total - 1) ELSE {0}

RECURSIVE WcLoopGeq(_, _, _)
WcLoopGeq(choices, r, upto) ==
    IF choices = <<>> THEN AssertFail
    ELSE IF upto + choices[1][2] >= r THEN choices[1][1]
    ELSE WcLoopGeq(Tail(choices), r, upto + choices[1][2])

\* variant: the comparison is >= instead of >
WeightedChoiceGeq(choices, r) == WcLoopGeq(choices, r, 0)

\* lines 324-329
RECURSIVE WcLoop(_, _, _)
WcLoop(choices, r, upto) ==
    IF choices = <<>> THEN AssertFail
    ELSE IF upto + choices[1][2] > r THEN choices[1][1]
    ELSE WcLoop(Tail(choices), r, upto + choices[1][2])

WeightedChoice(choices, r) == WcLoop(choices, r, 0)

\* the lists weighted_choice is applied to on its own
ChoiceLists ==
    UNION {{[i \in 1..n |-> <<i, f[i]>>] : f \in [1..n -> 0..MaxWeight]}
           : n \in 0..MaxChoices}

WeightedChoiceCall ==
    /\ wc_result = Pending
    /\ wc_result' = WeightedChoice(wc_choices, wc_r)
    /\ UNCHANGED <<pc, exc, exit_code, term_count, mainVars, fsVars, active,
                   childVars, executed, gen_pos, test_name, yields,
                   shuffleVars, wc_choices, wc_r>>

\* ---- shuffle, lines 332-352 --------------------------------------------
\* time.time() is the clock `now`: the generator reads it before each yield
\* (line 339) and when it is resumed (line 341).
\* variant: every position is drawn independently (with replacement)
ShuffledOrdersWithRepeats(tc) ==
    [1..Len(tc) -> {tc[i] : i \in 1..Len(tc)}]

\* lines 333-334: random.shuffle yields any permutation of the list
ShuffledOrders(tc) ==
    {o \in [1..Len(tc) -> {tc[i] : i \in 1..Len(tc)}] :
        \A i, j \in 1..Len(tc) : i # j => o[i] # o[j]}

\* line 335
NoTimings(tc) ==
    [t \in {tc[i] : i \in 1..Len(tc)} |-> [total |-> 0, count |-> 0]]

\* variant: the run is added to the duration but not counted
UpdateTimingNoCount(tm, test, d) ==
    [tm EXCEPT ![test] = [total |-> @.total + d, count |-> @.count]]

\* lines 341-342 and 351-352
UpdateTiming(tm, test, d) ==
    [tm EXCEPT ![test] = [total |-> @.total + d, count |-> @.count + 1]]

\* line 348: v[1] / v[0] raises ZeroDivisionError when a total is 0.0
ZeroDivision(tm) == \E t \in DOMAIN tm : tm[t].total = 0

\* line 348: the weights count/total, all multiplied by the product of the
\* totals so that they are integers (the choice only compares them)
RECURSIVE ProductOfTotals(_, _)
ProductOfTotals(tm, ts) ==
    IF ts = {} THEN 1
    ELSE LET t == CHOOSE x \in ts : TRUE
         IN tm[t].total * ProductOfTotals(tm, ts \ {t})

TimingWeights(tm) ==
    [t \in DOMAIN tm |->
        <<t, tm[t].count * ProductOfTotals(tm, DOMAIN tm \ {t})>>]

\* one value of r for each end of each item's interval of [0, total)
DrawPoints(choices) ==
    {r \in UNION {{SumWeights(SubSeq(choices, 1, k - 1)),
                   SumWeights(SubSeq(choices, 1, k)) - 1}
                  : k \in 1..Len(choices)} :
        r \in UniformDraws(SumWeights(choices))}

\* first next(): lines 333-340
ShuffleStart ==
    /\ pc = "next"
    /\ shuffle_on /\ gen_at = "new"
    /\ \E o \in ShuffledOrders(test_cases) :
        /\ order' = o
        /\ test_name' = o[1]
        /\ yields' = Append(yields, o[1])
    /\ timings' = NoTimings(test_cases)
    /\ gen_pos' = 1
    /\ start_time' = now
    /\ gen_at' = "340"
    /\ pc' = "check_term"
    /\ UNCHANGED <<exc, exit_code, term_count, mainVars, fsVars, active,
                   childVars, executed, shuffle_on, elapsed, wcVars>>

\* next() during the first pass: lines 341-342, then 338-340
ShuffleFirstPass ==
    /\ pc = "next"
    /\ shuffle_on /\ gen_at = "340" /\ gen_pos < NumTests
    /\ elapsed' = now - start_time
    /\ timings' = UpdateTiming(timings, order[gen_pos], elapsed')
    /\ gen_pos' = gen_pos + 1
    /\ test_name' = order[gen_pos']
    /\ start_time' = now
    /\ yields' = Append(yields, test_name')
    /\ pc' = "check_term"
    /\ UNCHANGED <<exc, exit_code, term_count, mainVars, fsVars, active,
                   childVars, executed, shuffle_on, gen_at, order, wcVars>>

\* next() after the first pass without repeat: lines 341-345
ShuffleReturn ==
    /\ pc = "next"
    /\ shuffle_on /\ gen_at = "340" /\ gen_pos = NumTests
    /\ PassEnds(repeat)
    /\ elapsed' = now - start_time
    /\ timings' = UpdateTiming(timings, order[gen_pos], elapsed')
    /\ gen_at' = "returned"
    /\ pc' = "compute_exit"
    /\ UNCHANGED <<exc, exit_code, term_count, mainVars, fsVars, active,
                   childVars, executed, gen_pos, test_name, yields,
                   shuffle_on, order, start_time, wcVars>>

\* next() with repeat once the first pass is over: the pending update
\* (lines 341-342 or 351-352), then lines 348-350
ShuffleDraw ==
    /\ pc = "next"
    /\ shuffle_on /\ ~PassEnds(repeat)
    /\ (gen_at = "340" /\ gen_pos = NumTests) \/ gen_at = "350"
    /\ LET tm == UpdateTiming(timings, test_name, now - start_time)
       IN /\ ~ZeroDivision(tm)
          /\ elapsed' = now - start_time
          /\ timings' = tm
          /\ \E r \in DrawPoints(TimingWeights(tm)) :
               LET test == WeightedChoice(TimingWeights(tm), r)
               IN IF test = AssertFail
                  THEN /\ Raise("Error")
                       /\ gen_at' = "raised"
                       /\ UNCHANGED <<test_name, yields, start_time>>
                  ELSE /\ test_name' = test
                       /\ start_time' = now
                       /\ yields' = Append(yields, test)
                       /\ gen_at' = "350"
                       /\ pc' = "check_term"
                       /\ UNCHANGED <<exc, exit_code>>
    /\ UNCHANGED <<term_count, mainVars, fsVars, active, childVars,
                   executed, gen_pos, shuffle_on, order, wcVars>>

\* line 348 raises ZeroDivisionError: a total duration is 0.0
ShuffleZeroDivision ==
    /\ pc = "next"
    /\ shuffle_on /\ ~PassEnds(repeat)
    /\ (gen_at = "340" /\ gen_pos = NumTests) \/ gen_at = "350"
    /\ LET tm == UpdateTiming(timings, test_name, now - start_time)
       IN /\ ZeroDivision(tm)
          /\ elapsed' = now - start_time
          /\ timings' = tm
    /\ gen_at' = "raised"
    /\ Raise("Error")
    /\ UNCHANGED <<term_count, mainVars, fsVars, active, childVars,
                   executed, gen_pos, test_name, yields, shuffle_on, order,
                   start_time, wcVars>>

\* the caller of a scheduler driven on its own (islice, list, the loop of
\* lines 404-405) takes the element, spends some time on it, which may be
\* none at all on the clock, and asks for the next one
Consume ==
    /\ pc = "check_term"
    /\ Len(yields) < MaxYields
    /\ \E d \in Durations : now' = now + d
    /\ pc' = "next"
    /\ UNCHANGED <<exc, exit_code, term_count, mainVars, genVars, rundir,
                   dirs, links, markers, active, childVars, executed>>

\* ---- main, lines 119-121 -----------------------------------------------
CheckTermBreak ==
    /\ pc = "check_term"
    /\ TermRequested(term_count)
    /\ pc' = "compute_exit"
    /\ UNCHANGED <<exc, exit_code, term_count, mainVars, genVars, fsVars,
                   active, childVars, executed>>

CheckTermGo ==
    /\ pc = "check_term"
    /\ ~TermRequested(term_count)
    /\ run_count < MaxRuns
    /\ pc' = "incr"
    /\ UNCHANGED <<exc, exit_code, term_count, mainVars, genVars, fsVars,
                   active, childVars, executed>>

IncrRunCount ==
    /\ pc = "incr"
    /\ run_count' = run_count + 1
    /\ pc' = "mkdir0"
    /\ UNCHANGED <<exc, exit_code, term_count, failure_count,
                   last_exit_status, keep_going, repeat, genVars, fsVars,
                   active, childVars, executed>>

\* ---- make_rundir, lines 172-184 ----------------------------------------
\* variant: every name clash is retried
SleepAndRetryAlways(eexist, n) == eexist

\* line 179: e.errno == errno.EEXIST and n == 0
SleepAndRetry(eexist, n) == eexist /\ n = 0

\* The directory name is the wall-clock second; the time elapsed since the
\* clock was last read is any amount >= 0.
\* n = 0
MkdirFirst ==
    /\ pc = "mkdir0"
    /\ \E t \in now..MaxTime :
        /\ now' = t
        \* the clock ends at MaxTime: a sleep needs one more second
        /\ t \in dirs => t < MaxTime
        /\ IF t \notin dirs
           THEN /\ dirs' = dirs \cup {t} /\ rundir' = t /\ pc' = "cur_symlink"
                /\ UNCHANGED <<exc, exit_code>>
           ELSE IF SleepAndRetry(TRUE, 0)
           THEN pc' = "sleep" /\ UNCHANGED <<exc, exit_code, dirs, rundir>>
           ELSE Raise("Error") /\ UNCHANGED <<dirs, rundir>>
    /\ UNCHANGED <<term_count, mainVars, genVars, links, markers, active,
                   childVars, executed>>

\* n = 1
MkdirSecond ==
    /\ pc = "mkdir1"
    /\ \E t \in now..MaxTime :
        /\ now' = t
        /\ IF t \notin dirs
           THEN /\ dirs' = dirs \cup {t} /\ rundir' = t /\ pc' = "cur_symlink"
                /\ UNCHANGED <<exc, exit_code>>
           ELSE IF SleepAndRetry(TRUE, 1)
           THEN pc' = "sleep" /\ UNCHANGED <<exc, exit_code, dirs, rundir>>
           ELSE Raise("Error") /\ UNCHANGED <<dirs, rundir>>
    /\ UNCHANGED <<term_count, mainVars, genVars, links, markers, active,
                   childVars, executed>>

\* os.mkdir fails with another errno: raised at either attempt
MkdirError ==
    /\ pc \in {"mkdir0", "mkdir1"}
    /\ Raise("Error")
    /\ UNCHANGED <<term_count, mainVars, genVars, fsVars, active, childVars,
                   executed>>

\* time.sleep(1), line 182
Sleep ==
    /\ pc = "sleep"
    /\ now < MaxTime
    /\ \E t \in (now + 1)..MaxTime : now' = t
    /\ pc' = "mkdir1"
    /\ UNCHANGED <<exc, exit_code, term_count, mainVars, genVars, rundir,
                   dirs, links, markers, active, childVars, executed>>

\* ---- setup_dirs, lines 210-214 -----------------------------------------
PublishSymlink ==
    /\ pc = "cur_symlink"
    /\ links' = OsSymlink(links, rundir, "current")
    /\ pc' = "cur_rename"
    /\ UNCHANGED <<exc, exit_code, term_count, mainVars, genVars, now,
                   rundir, dirs, markers, active, childVars, executed>>

PublishRename ==
    /\ pc = "cur_rename"
    /\ links' = OsRename(links, "current")
    /\ pc' = "set_pointer"
    /\ UNCHANGED <<exc, exit_code, term_count, mainVars, genVars, now,
                   rundir, dirs, markers, active, childVars, executed>>

\* os.rename raises OSError: the temporary link stays behind
RenameFails ==
    /\ pc \in {"cur_rename", "fin_rename"}
    /\ Raise("Error")
    /\ UNCHANGED <<term_count, mainVars, genVars, fsVars, active, childVars,
                   executed>>

SetPointer ==
    /\ pc = "set_pointer"
    /\ active' = rundir
    /\ pc' = "enter_try"
    /\ UNCHANGED <<exc, exit_code, term_count, mainVars, genVars, fsVars,
                   childVars, executed>>

\* line 215-216: the try is entered and the generator yields to the with body
EnterTry ==
    /\ pc = "enter_try"
    /\ pc' = "fill"
    /\ UNCHANGED <<exc, exit_code, term_count, mainVars, genVars, fsVars,
                   active, childVars, executed>>

\* ---- with body, lines 124-125 ------------------------------------------
\* fill_in_data_files, lines 187-201
FillInDataFiles ==
    /\ pc = "fill"
    /\ pc' = "child_none"
    /\ UNCHANGED <<exc, exit_code, term_count, mainVars, genVars, fsVars,
                   active, childVars, executed>>

FillInDataFilesFails ==
    /\ pc = "fill"
    /\ Raise("Error")
    /\ UNCHANGED <<term_count, mainVars, genVars, fsVars, active, childVars,
                   executed>>

\* run_one, lines 237-251
RunOneBegin ==
    /\ pc = "child_none"
    /\ child' = Null
    /\ pc' = "popen"
    /\ UNCHANGED <<exc, exit_code, term_count, mainVars, genVars, fsVars,
                   active, child_state, child_status, child_signalled,
                   child_cwd, ret, executed>>

\* run_one, lines 253-255: subprocess.Popen forks the child in its own
\* process group with cwd = rundir; the result is not yet bound to `child`
Popen ==
    /\ pc = "popen"
    /\ child_state' = "running"
    /\ child_signalled' = FALSE
    /\ child_cwd' = rundir
    /\ child_status' = 0
    /\ pc' = "store_child"
    /\ UNCHANGED <<exc, exit_code, term_count, mainVars, genVars, fsVars,
                   active, child, ret, executed>>

PopenFails ==
    /\ pc = "popen"
    /\ Raise("Error")
    /\ UNCHANGED <<term_count, mainVars, genVars, fsVars, active, childVars,
                   executed>>

\* run_one, line 253: child = <the Popen object>
StoreChild ==
    /\ pc = "store_child"
    /\ child' = child_cwd
    /\ pc' = "wait"
    /\ UNCHANGED <<exc, exit_code, term_count, mainVars, genVars, fsVars,
                   active, child_state, child_status, child_signalled,
                   child_cwd, ret, executed>>

\* run_one, line 256: child.wait() returns once the child has exited
Wait ==
    /\ pc = "wait"
    /\ child_state = "exited"
    /\ child_state' = "reaped"
    /\ ret' = child_status
    /\ pc' = "ret"
    /\ UNCHANGED <<exc, exit_code, term_count, mainVars, genVars, fsVars,
                   active, child, child_status, child_signalled, child_cwd,
                   executed>>

\* run_one, line 256 and main, line 125: return; last_exit_status = ...
Return ==
    /\ pc = "ret"
    /\ last_exit_status' = ret
    /\ executed' = Append(executed, ret)
    /\ pc' = "fin_symlink"
    /\ UNCHANGED <<exc, exit_code, term_count, run_count, failure_count,
                   keep_going, repeat, genVars, fsVars, active, childVars>>

\* run_one, lines 257-259: except SystemExit: if child: os.kill(-pid, SIGTERM)
\* Signalling a group that is gone raises OSError (ESRCH); once the child
\* has been reaped the group exists only if descendants are still in it.
ExceptKill ==
    /\ pc = "except"
    /\ child # Null
    /\ \/ /\ child_signalled' = TRUE
          /\ pc' = "wait2"
          /\ UNCHANGED <<exc, exit_code>>
       \/ /\ child_state = "reaped"
          /\ Raise("Error")
          /\ UNCHANGED child_signalled
    /\ UNCHANGED <<term_count, mainVars, genVars, fsVars, active, child,
                   child_state, child_status, child_cwd, ret, executed>>

\* run_one, lines 258 and 261: child is None, re-raise
ExceptNoChild ==
    /\ pc = "except"
    /\ child = Null
    /\ Raise("SystemExit")
    /\ UNCHANGED <<term_count, mainVars, genVars, fsVars, active, childVars,
                   executed>>

\* run_one, lines 260-261: child.wait(); raise
ExceptWait ==
    /\ pc = "wait2"
    /\ child_state \in {"exited", "reaped"}
    /\ child_state' = "reaped"
    /\ Raise("SystemExit")
    /\ UNCHANGED <<term_count, mainVars, genVars, fsVars, active, child,
                   child_status, child_signalled, child_cwd, ret, executed>>

\* ---- setup_dirs, finally, lines 217-220 --------------------------------
RetireSymlink ==
    /\ pc = "fin_symlink"
    /\ links' = OsSymlink(links, rundir, "latest")
    /\ pc' = "fin_rename"
    /\ UNCHANGED <<exc, exit_code, term_count, mainVars, genVars, now,
                   rundir, dirs, markers, active, childVars, executed>>

RetireRename ==
    /\ pc = "fin_rename"
    /\ links' = OsRename(links, "latest")
    /\ pc' = "fin_clear"
    /\ UNCHANGED <<exc, exit_code, term_count, mainVars, genVars, now,
                   rundir, dirs, markers, active, childVars, executed>>

\* line 220, then the pending exception (if any) leaves main
ClearPointer ==
    /\ pc = "fin_clear"
    /\ active' = Null
    /\ IF exc = "none"
       THEN pc' = "account" /\ UNCHANGED exit_code
       ELSE pc' = "terminated" /\ exit_code' = 1
    /\ UNCHANGED <<exc, term_count, mainVars, genVars, fsVars, childVars,
                   executed>>

\* ---- main, lines 127-150 -----------------------------------------------
Account ==
    /\ pc = "account"
    /\ failure_count' = CountFailure(failure_count, last_exit_status)
    /\ pc' = "check_marker"
    /\ UNCHANGED <<exc, exit_code, term_count, run_count, last_exit_status,
                   keep_going, repeat, genVars, fsVars, active, childVars,
                   executed>>

CheckMarker ==
    /\ pc = "check_marker"
    /\ pc' = IF MarkerExists(links, markers) THEN "compute_exit" ELSE "decide"
    /\ UNCHANGED <<exc, exit_code, term_count, mainVars, genVars, fsVars,
                   active, childVars, executed>>

DecideStep ==
    /\ pc = "decide"
    /\ pc' = IF Decide(last_exit_status, keep_going) = "CONTINUE"
             THEN "next" ELSE "compute_exit"
    /\ UNCHANGED <<exc, exit_code, term_count, mainVars, genVars, fsVars,
                   active, childVars, executed>>

ReturnExitCode ==
    /\ pc = "compute_exit"
    /\ exit_code' = ExitCode(run_count, last_exit_status, failure_count)
    /\ pc' = "returned"
    /\ UNCHANGED <<exc, term_count, mainVars, genVars, fsVars, active,
                   childVars, executed>>

\* ---- the child test process --------------------------------------------
ChildExit ==
    /\ child_state = "running"
    /\ child_state' = "exited"
    /\ \E s \in ExitStatuses : child_status' = s
    /\ UNCHANGED <<pc, exc, exit_code, term_count, mainVars, genVars, fsVars,
                   active, child, child_signalled, child_cwd, ret, executed>>

\* the test writes <rundir>/unrecoverable-error
ChildWritesMarker ==
    /\ child_state = "running"
    /\ child_cwd \notin markers
    /\ markers' = markers \cup {child_cwd}
    /\ UNCHANGED <<pc, exc, exit_code, term_count, mainVars, genVars, now,
                   rundir, dirs, links, active, childVars, executed>>

Next ==
    \/ on_term
    \/ TsMissing \/ TsFound
    \/ LoopTestsYield \/ LoopTestsReturn
    \/ CheckTermBreak \/ CheckTermGo \/ IncrRunCount
    \/ MkdirFirst \/ MkdirSecond \/ MkdirError \/ Sleep
    \/ PublishSymlink \/ PublishRename \/ RenameFails
    \/ SetPointer \/ EnterTry
    \/ FillInDataFiles \/ FillInDataFilesFails
    \/ RunOneBegin \/ Popen \/ PopenFails \/ StoreChild \/ Wait \/ Return
    \/ ExceptKill \/ ExceptNoChild \/ ExceptWait
    \/ RetireSymlink \/ RetireRename \/ ClearPointer
    \/ Account \/ CheckMarker \/ DecideStep \/ ReturnExitCode
    \/ ChildExit \/ ChildWritesMarker

Spec == Init /\ [][Next]_vars

\* ---- the schedulers driven on their own --------------------------------
SchedInit ==
    /\ pc = "next"
    /\ keep_going = 0
    /\ repeat \in BOOLEAN
    /\ shuffle_on \in BOOLEAN
    /\ ProcessInit
    /\ SchedulerInit
    /\ WcIdle

SchedNext ==
    \/ LoopTestsYield \/ LoopTestsReturn
    \/ ShuffleStart \/ ShuffleFirstPass \/ ShuffleReturn
    \/ ShuffleDraw \/ ShuffleZeroDivision
    \/ Consume

SchedSpec == SchedInit /\ [][SchedNext]_vars

\* ---- run-once batches under either policy, with fair scheduling --------
OnceInit ==
    /\ pc = "start"
    /\ keep_going \in KeepGoingLevels
    /\ repeat = FALSE
    /\ shuffle_on \in BOOLEAN
    /\ ProcessInit
    /\ SchedulerInit
    /\ WcIdle

OnceNext ==
    \/ Next
    \/ ShuffleStart \/ ShuffleFirstPass \/ ShuffleReturn

\* every step of the supervising process (signals and the child excluded)
Supervisor ==
    \/ TsMissing \/ TsFound
    \/ LoopTestsYield \/ LoopTestsReturn
    \/ ShuffleStart \/ ShuffleFirstPass \/ ShuffleReturn
    \/ CheckTermBreak \/ CheckTermGo \/ IncrRunCount
    \/ MkdirFirst \/ MkdirSecond \/ MkdirError \/ Sleep
    \/ PublishSymlink \/ PublishRename \/ RenameFails
    \/ SetPointer \/ EnterTry
    \/ FillInDataFiles \/ FillInDataFilesFails
    \/ RunOneBegin \/ Popen \/ PopenFails \/ StoreChild \/ Wait \/ Return
    \/ ExceptKill \/ ExceptNoChild \/ ExceptWait
    \/ RetireSymlink \/ RetireRename \/ ClearPointer
    \/ Account \/ CheckMarker \/ DecideStep \/ ReturnExitCode

\* the interpreter keeps running the main thread; every child exits
Fairness == WF_vars(Supervisor) /\ WF_vars(ChildExit)

OnceSpec == OnceInit /\ [][OnceNext]_vars /\ Fairness

\* ---- weighted_choice applied to every small list -----------------------
WcInit ==
    /\ pc = "start"
    /\ keep_going = 0
    /\ repeat = FALSE
    /\ shuffle_on = FALSE
    /\ ProcessInit
    /\ SchedulerInit
    /\ wc_choices \in ChoiceLists
    /\ wc_r \in UniformDraws(SumWeights(wc_choices))
    /\ wc_result = Pending

WcNext == WeightedChoiceCall

WcSpec == WcInit /\ [][WcNext]_vars

TypeOK ==
    /\ pc \in TryPcs \cup BodyPcs \cup FinallyPcs \cup SetupPcs \cup LoopPcs
              \cup Terminal
    /\ exc \in {"none", "SystemExit", "Error"}
    /\ term_count \in 0..MaxSignals
    /\ run_count \in 0..MaxRuns
    /\ failure_count \in 0..MaxRuns
    /\ dirs \subseteq 1..MaxTime
    /\ active \in {Null} \cup dirs

\* ---- properties ---------------------------------------------------------
FinalLinks == {"current", "latest"}
NonZero(seq) == {i \in DOMAIN seq : seq[i] # 0}
Launch == child_state # "running" /\ child_state' = "running"

\* C1: absent the marker, the step taken from the decision point of the loop
\* depends on (exit status, keep_going) only: the loop continues iff the
\* status is 0, or it is >= 2 and keep_going >= 1, or keep_going >= 2;
\* otherwise it stops.  Negative statuses included.
C1_DecisionPolicy ==
    [][(pc = "decide" /\ pc' \notin {"decide", "terminated"})
        => pc' = IF \/ last_exit_status = 0
                    \/ last_exit_status >= 2 /\ keep_going >= 1
                    \/ keep_going >= 2
                 THEN "next" ELSE "compute_exit"]_vars

\* the loop went on after a run that a signal killed (negative status),
\* under -kk
C1_Witness ==
    /\ pc = "next" /\ run_count >= 1
    /\ last_exit_status < 0 /\ keep_going = 2

\* C2: when the marker exists under latest<tag> at the check that follows a
\* run, the loop stops whatever the exit status and keep_going level, and
\* once the loop has been left no run is started.
C2_MarkerStops ==
    [][/\ (pc = "check_marker" /\ links.latest \in markers)
            => pc' \in {"check_marker", "compute_exit", "terminated"}
       /\ pc \in {"compute_exit", "returned"}
            => run_count' = run_count /\ dirs' = dirs /\ ~Launch]_vars

\* the loop was left after a passing run, with -kk, tests left to run and no
\* interrupt: only the marker can have stopped it
C2_Witness ==
    /\ pc = "compute_exit" /\ links.latest \in markers
    /\ last_exit_status = 0 /\ keep_going = 2 /\ repeat
    /\ term_count = 0 /\ run_count < MaxRuns

\* C3: when main returns after the loop, the exit code is the raw status of
\* the only run if exactly one run was executed, else 0 if no executed run
\* had a nonzero status, else 1.
C3_ExitCode ==
    pc = "returned" =>
        exit_code = IF Len(executed) = 1 THEN executed[1]
                    ELSE IF NonZero(executed) = {} THEN 0
                    ELSE 1

\* a single run with status 3 in repeat mode: the batch returns 3
C3_Witness ==
    /\ pc = "returned" /\ executed = <<3>> /\ exit_code = 3 /\ repeat

\* C4: a failed run always shows in the exit code (0 is returned only if
\* every executed run returned 0, and a process ended by an exception ends
\* with 1), and failure_count is the number of executed runs with a nonzero
\* status at every point of the loop outside the release of the run that
\* has just returned (lines 125-128, where the count is being brought up to
\* date).
C4_NoFailureDropped ==
    /\ pc = "returned" => (exit_code = 0 <=> NonZero(executed) = {})
    /\ pc = "terminated" => exit_code # 0
    /\ pc \notin FinallyPcs \cup {"account", "terminated"}
           => failure_count = Cardinality(NonZero(executed))

\* a run killed by a signal followed by a passing run: the batch returns 1
C4_Witness ==
    /\ pc = "returned" /\ Len(executed) >= 2
    /\ executed[1] < 0 /\ executed[Len(executed)] = 0
    /\ exit_code = 1 /\ failure_count = 1

\* C5 as stated: after a first signal no run directory is allocated and no
\* child is launched, whenever the signal arrives; the child in flight is
\* not signalled.
C5_NoRunAfterFirstSignal ==
    [][/\ term_count >= 1 => (dirs' = dirs /\ ~Launch)
       /\ term_count' <= 1 => ~child_signalled']_vars

\* C5 amended: after a first signal every loop-top check ends the loop, so
\* only an iteration whose check had already passed still sets up and runs
\* its test; the first signal changes nothing but the counter (and ends a
\* sleep early): it does not signal the child nor disturb the wait for it.
C5_GracefulStopAtLoopTop ==
    [][/\ (pc = "check_term" /\ term_count >= 1)
            => pc' \in {"check_term", "compute_exit", "terminated"}
       /\ (term_count = 0 /\ term_count' = 1)
            => /\ pc' = pc \/ (pc = "sleep" /\ pc' = "mkdir1")
               /\ UNCHANGED <<exc, childVars, fsVars, active, mainVars>>
       /\ term_count' <= 1 => ~child_signalled']_vars

\* the interrupt arrived, the run in flight finished and passed, and the
\* loop was left at its top although tests were left to run
C5_Witness ==
    /\ pc = "compute_exit" /\ term_count = 1 /\ repeat
    /\ run_count >= 1 /\ run_count < MaxRuns
    /\ last_exit_status = 0 /\ links.latest \notin markers
    /\ child_state = "reaped" /\ ~child_signalled

\* C6 as stated: from the second signal on the process does nothing but
\* signal the child's group and end with exit code 1.
C6_NoCleanupAfterSecondSignal ==
    [][term_count' >= 2
        => /\ run_count' = run_count /\ dirs' = dirs /\ ~Launch
           /\ links' = links /\ active' = active
           /\ pc' \notin {"returned", "no_ts"}
           /\ pc' = "terminated" => exit_code' = 1]_vars

\* C6 amended: from the second signal on no run is started, main never
\* returns normally and the process ends with exit code 1; the only further
\* work is the SIGTERM to the child's group and the wait for it in run_one
\* and, when the signal arrives inside the with statement, the release of
\* setup_dirs (latest<tag> repointed, pointer cleared).
C6_SecondSignalTerminates ==
    [][term_count' >= 2
        => /\ run_count' = run_count /\ dirs' = dirs /\ ~Launch
           /\ failure_count' = failure_count
           /\ links'.current = links.current
           /\ (links' # links \/ active' # active) => pc \in FinallyPcs
           /\ pc' \notin {"returned", "no_ts"}
           /\ pc' = "terminated" => exit_code' = 1]_vars

\* the second signal arrived during the wait: the child's group was
\* signalled, the child reaped, the directory released, exit code 1
C6_Witness ==
    /\ pc = "terminated" /\ term_count = 2 /\ exit_code = 1
    /\ exc = "SystemExit"
    /\ child_signalled /\ child_state = "reaped"
    /\ active = Null /\ links.latest = rundir

\* C7: the supervisor never terminates abnormally while a child it has
\* launched is neither reaped nor signalled and waited for.
C7_ChildSignalledAndReaped ==
    pc = "terminated" => child_state \in {"none", "reaped"}

\* C8: no path leaves the active span of setup_dirs with the pointer still
\* holding a directory path.
C8_PointerClearedOnExit ==
    pc \in LoopPcs \cup Terminal => active = Null

\* C9: while a child runs the pointer is its run directory, which
\* current<tag> points to; between runs the pointer is null.
C9_PointerReflectsTruth ==
    /\ child_state = "running"
           => active = child_cwd /\ links.current = child_cwd
    /\ pc \in LoopPcs \cup {"returned"} => active = Null

\* C10: at every step a final link (current<tag>, latest<tag>) is the old
\* or the new target, does not disappear once it exists, and points to an
\* existing directory; also when the process ends between the creation of
\* the temporary link and the rename.
C10_SymlinkAtomic ==
    [][\A l \in FinalLinks :
        /\ links[l] # Null => links'[l] # Null
        /\ links'[l] \in {links[l], rundir}
        /\ links'[l] # Null => links'[l] \in dirs']_vars

\* the process ended with the temporary link in place: the final links
\* still point to the directory of the previous run
C10_Witness ==
    /\ pc = "terminated" /\ links.tmp # Null
    /\ links.latest # Null /\ links.latest # links.tmp
    /\ links.current \in dirs /\ links.latest \in dirs

\* C11: latest<tag> is the directory of the run that completed last: it
\* points to the run that has just ended before the marker is checked, it
\* never points to the directory of a run whose child is still running, and
\* it is never ahead of current<tag> (directory names grow with time).
C11_LatestIsLastCompleted ==
    /\ pc \in {"account", "check_marker", "decide"} => links.latest = rundir
    /\ child_state = "running" => links.latest # child_cwd
    /\ links.latest # Null
           => links.current # Null /\ links.latest <= links.current

\* C12: make_rundir makes at most two creation attempts with one sleep in
\* between: a name clash at the first attempt leads to the sleep, the second
\* attempt either creates a directory or raises, and the name returned is
\* always that of a directory created by this very attempt, so it differs
\* from every name handed out before.
C12_MakeRundir ==
    [][/\ dirs' # dirs
            => /\ pc \in {"mkdir0", "mkdir1"} /\ pc' = "cur_symlink"
               /\ rundir' \notin dirs /\ dirs' = dirs \cup {rundir'}
       /\ rundir' # rundir => rundir' \in dirs' \ dirs
       /\ (pc \in {"mkdir0", "mkdir1"} /\ pc' = "cur_symlink")
            => rundir' \in dirs' \ dirs
       /\ pc = "mkdir0"
            => /\ pc' \in {"mkdir0", "cur_symlink", "sleep", "terminated"}
               /\ pc' = "sleep" => now' \in dirs
       /\ pc = "sleep" => pc' \in {"sleep", "mkdir1", "terminated"}
       /\ pc = "mkdir1" => pc' \in {"mkdir1", "cur_symlink", "terminated"}]_vars

\* the second allocation clashed with the directory of the first run, slept
\* into the next second and is at its second attempt
C12_Witness ==
    /\ pc = "mkdir1" /\ run_count = 2
    /\ Cardinality(dirs) = 1 /\ now \notin dirs /\ rundir \in dirs

\* number of positions of seq holding t
Occurrences(seq, t) == Cardinality({i \in 1..Len(seq) : seq[i] = t})

\* C13: loop_tests yields, as its k-th element (from 0), input[k mod N];
\* without repeat it yields at most N elements and ends exactly after the
\* input list in its order; with repeat it never ends.
C13_LoopTestsSequence ==
    ~shuffle_on =>
        /\ \A i \in 1..Len(yields) :
               yields[i] = test_cases[((i - 1) % NumTests) + 1]
        /\ ~repeat => Len(yields) <= NumTests
        /\ pc = "compute_exit" => ~repeat /\ yields = test_cases

\* with repeat the sequence has wrapped around to the first test again
C13_Witness ==
    /\ ~shuffle_on /\ repeat /\ pc = "check_term"
    /\ Len(yields) > NumTests /\ yields[NumTests + 1] = test_cases[1]

\* C14: the first N yields of shuffle hold every test case exactly once,
\* whatever the order, with or without repeat; without repeat the sequence
\* ends after exactly N yields.
C14_ShuffleFirstPass ==
    shuffle_on =>
        /\ \A i \in 1..Len(yields) : Occurrences(test_cases, yields[i]) = 1
        /\ \A i, j \in 1..Len(yields) :
               (i < j /\ j <= NumTests) => yields[i] # yields[j]
        /\ ~repeat => Len(yields) <= NumTests
        /\ gen_at = "returned" => ~repeat /\ Len(yields) = NumTests

\* a run-once shuffle that has ended after an order other than the input's
C14_Witness ==
    /\ shuffle_on /\ ~repeat /\ gen_at = "returned"
    /\ Len(yields) = NumTests /\ yields # test_cases

\* C16: every timing entry has run_count = 0 exactly when total_duration = 0,
\* and no weighted draw finds a zero total_duration (the weight
\* run_count / total_duration is defined at every draw).
C16_TimingEntryInvariant ==
    shuffle_on =>
        /\ \A t \in DOMAIN timings :
               timings[t].count = 0 <=> timings[t].total = 0
        /\ gen_at # "raised"

\* cumulative weight of the first k pairs
RECURSIVE CumulativeWeight(_, _)
CumulativeWeight(choices, k) ==
    IF k = 0 THEN 0 ELSE CumulativeWeight(choices, k - 1) + choices[k][2]

\* C17: for a non-empty list with weights >= 0 and positive sum, and r in
\* [0, sum), weighted_choice returns the first item whose cumulative weight
\* exceeds r, never an item of weight 0; the assertion is reached only for
\* an empty list or a sum <= 0.
C17_WeightedChoice ==
    wc_result # Pending =>
        LET n == Len(wc_choices)
        IN /\ (n > 0 /\ CumulativeWeight(wc_choices, n) > 0)
                => \E k \in 1..n :
                      /\ wc_result = wc_choices[k][1]
                      /\ CumulativeWeight(wc_choices, k) > wc_r
                      /\ \A j \in 1..(k - 1) :
                             CumulativeWeight(wc_choices, j) <= wc_r
                      /\ wc_choices[k][2] > 0
           /\ wc_result = AssertFail
                => n = 0 \/ CumulativeWeight(wc_choices, n) <= 0

\* r = 0 and a first item of weight 0: the second item is returned
C17_Witness ==
    /\ Len(wc_choices) >= 2 /\ wc_choices[1][2] = 0 /\ wc_r = 0
    /\ wc_result = 2

\* C18: a next() after test T was yielded changes exactly T's entry, by one
\* run and the time elapsed since the yield, before the weights of the next
\* draw are computed from the table; so at each draw the run_count of every
\* test is the number of times it has been yielded so far.
C18_TimingUpdateBeforeDraw ==
    [][/\ (shuffle_on /\ pc = "next" /\ gen_at # "new")
            => /\ timings' = [timings EXCEPT ![test_name] =
                                 [total |-> @.total + elapsed',
                                  count |-> @.count + 1]]
               /\ elapsed' = now - start_time
               /\ \A t \in DOMAIN timings' :
                      timings'[t].count = Occurrences(yields, t)
               /\ Len(yields') > Len(yields) /\ gen_at' = "350"
                    => \E r \in UniformDraws(SumWeights(TimingWeights(timings'))) :
                          test_name' = WeightedChoice(TimingWeights(timings'), r)
       /\ (timings' # timings /\ timings # <<>>)
            => shuffle_on /\ pc = "next"]_vars

\* a weighted draw made on a table in which a test has two recorded runs
C18_Witness ==
    /\ shuffle_on /\ gen_at = "350" /\ pc = "check_term"
    /\ \E t \in DOMAIN timings : timings[t].count = 2 /\ timings[t].total > 0

\* C19: when the child has already exited or been reaped at the time run_one
\* sends SIGTERM to its group, the kill raises nothing and SystemExit keeps
\* propagating.
C19_KillRaceIsNoOp ==
    [][(/\ pc = "except" /\ child # Null
        /\ child_state \in {"exited", "reaped"}
        /\ term_count' = term_count)
            => exc' = "SystemExit"]_vars

\* C20: a run-once batch whose children all exit comes to an end; it starts
\* at most N runs, each test case at most once, and when it returns without
\* a failed run, a marker or a signal it has made exactly N runs, in input
\* order under the sequential policy.
C20_RunOnceTerminates ==
    /\ [](/\ run_count <= Len(yields) /\ Len(executed) <= run_count
          /\ Len(yields) <= NumTests
          /\ \A i, j \in 1..Len(yields) : i # j => yields[i] # yields[j]
          /\ (/\ pc = "returned" /\ exc = "none" /\ term_count = 0
              /\ markers = {} /\ NonZero(executed) = {})
                => /\ run_count = NumTests /\ Len(executed) = NumTests
                   /\ ~shuffle_on => yields = test_cases)
    /\ <>(pc \in Terminal)

\* a shuffled run-once batch that has returned after N passing runs
C20_Witness ==
    /\ pc = "returned" /\ shuffle_on /\ ~repeat /\ term_count = 0
    /\ Len(executed) = NumTests /\ NonZero(executed) = {}
====
